---- MODULE Spec2Model ----
(***************************************************************************)
(* Model of src/lib/universal/graph.ts: the depth-first graph toolkit      *)
(* (dagIsCyclicalDFS, dagCyclesDFS, dagTopologicalSortDFS,                 *)
(* dagDependencies) behind the dagDepthFirst facade, and the diagram       *)
(* exporter graphPlantUmlDiagram.                                          *)
(*                                                                         *)
(* The facade binds an identity function and a comparator once; every      *)
(* operation then takes a graph (and deps a target node) and returns a     *)
(* value.  The state is the bound pair (idOf, keyOf), the graph the caller *)
(* holds, and the most recent call with the value it returned (ret has one *)
(* slot per operation; the slots of the other operations are empty).       *)
(* history belongs to an observer of repeated calls, not to the library:   *)
(* no operation reads it.                                                  *)
(*                                                                         *)
(* Nodes are opaque objects; the library sees them only through            *)
(* identity(n) and compare(n1, n2).  The comparator is modelled by a key   *)
(* per node, compare(n1, n2) = keyOf[n1] - keyOf[n2], which covers every   *)
(* comparator that is a total preorder (ties between different nodes       *)
(* included).                                                              *)
(***************************************************************************)
EXTENDS Integers, Sequences, FiniteSets, TLC

VARIABLES graph, idOf, keyOf, call, ret, history

vars == <<graph, idOf, keyOf, call, ret, history>>

\* ------------------------------------------------------------------------
\* Bounds of the model
\* ------------------------------------------------------------------------

\* longest edge list of a graph that honours the input contract
MaxEdges == 3

\* longest edge list of a graph drawn without any input contract
MaxEdgesAny == 1

\* longest edge list of a graph whose edges may leave the node list, drawn
\* with unique identities and a consistent comparator
MaxEdgesDangling == 2

\* node objects of the general specifications, and the fourth one of the diamond
Node3 == {"A", "B", "C"}
Node == Node3 \cup {"D"}

\* ------------------------------------------------------------------------
\* Helpers of the model
\* ------------------------------------------------------------------------

Range(s) == {s[i] : i \in 1..Len(s)}

\* all sequences of at most n pairwise different elements of S
SeqsNoDup(S, n) ==
  UNION {{s \in [1..k -> S] : \A i, j \in 1..k : i # j => s[i] # s[j]} : k \in 0..n}

Edge(S) == [from : S, to : S]

\* ------------------------------------------------------------------------
\* The bound identity and comparator (NodeIdentitySupplier, NodeComparator)
\* ------------------------------------------------------------------------

identity(n) == idOf[n]

compare(n1, n2) == keyOf[n1] - keyOf[n2]

\* ------------------------------------------------------------------------
\* dagIsCyclicalDFS
\* ------------------------------------------------------------------------

RECURSIVE isCyclicalDFS(_, _, _, _), isCyclicalEdgeLoop(_, _, _, _, _)

\* the inner dagDFS(node, visited, recursionStack): the boolean it returns and
\* the two sets as it leaves them
isCyclicalDFS(g, node, visited, recursionStack) ==
  LET nodeId == identity(node)
  IN isCyclicalEdgeLoop(g, node, 1, visited \cup {nodeId}, recursionStack \cup {nodeId})

\* isCyclicalEdgeLoop without `recursionStack.delete(nodeId)` when the loop ends
isCyclicalEdgeLoop_NoDelete(g, node, i, visited, recursionStack) ==
  IF i > Len(g.edges)
  THEN [found |-> FALSE, visited |-> visited, recursionStack |-> recursionStack]
  ELSE
    LET edge == g.edges[i]
        neighbour == edge.to
    IN
    IF compare(edge.from, node) = 0
    THEN
      IF identity(neighbour) \notin visited
      THEN
        LET r == isCyclicalDFS(g, neighbour, visited, recursionStack)
        IN IF r.found
           THEN r
           ELSE IF identity(neighbour) \in r.recursionStack
                THEN [r EXCEPT !.found = TRUE]
                ELSE isCyclicalEdgeLoop(g, node, i + 1, r.visited, r.recursionStack)
      ELSE
        IF identity(neighbour) \in recursionStack
        THEN [found |-> TRUE, visited |-> visited, recursionStack |-> recursionStack]
        ELSE isCyclicalEdgeLoop(g, node, i + 1, visited, recursionStack)
    ELSE isCyclicalEdgeLoop(g, node, i + 1, visited, recursionStack)

\* `for (const edge of graph.edges)` of that dagDFS, from the i-th edge on
isCyclicalEdgeLoop(g, node, i, visited, recursionStack) ==
  IF i > Len(g.edges)
  THEN [found |-> FALSE, visited |-> visited,
        recursionStack |-> recursionStack \ {identity(node)}]
  ELSE
    LET edge == g.edges[i]
        neighbour == edge.to
    IN
    IF compare(edge.from, node) = 0
    THEN
      IF identity(neighbour) \notin visited
      THEN
        LET r == isCyclicalDFS(g, neighbour, visited, recursionStack)
        IN IF r.found
           THEN r
           ELSE IF identity(neighbour) \in r.recursionStack
                THEN [r EXCEPT !.found = TRUE]
                ELSE isCyclicalEdgeLoop(g, node, i + 1, r.visited, r.recursionStack)
      ELSE
        IF identity(neighbour) \in recursionStack
        THEN [found |-> TRUE, visited |-> visited, recursionStack |-> recursionStack]
        ELSE isCyclicalEdgeLoop(g, node, i + 1, visited, recursionStack)
    ELSE isCyclicalEdgeLoop(g, node, i + 1, visited, recursionStack)

RECURSIVE isCyclicalRootLoop(_, _, _, _)

\* isCyclicalRootLoop returning what the DFS of the first node returns
isCyclicalRootLoop_FirstRootOnly(g, k, visited, recursionStack) ==
  IF k > Len(g.nodes)
  THEN FALSE
  ELSE isCyclicalDFS(g, g.nodes[k], visited, recursionStack).found

\* `for (const node of graph.nodes)` of dagIsCyclicalDFS, from the k-th node on
isCyclicalRootLoop(g, k, visited, recursionStack) ==
  IF k > Len(g.nodes)
  THEN FALSE
  ELSE
    LET r == isCyclicalDFS(g, g.nodes[k], visited, recursionStack)
    IN IF r.found
       THEN TRUE
       ELSE isCyclicalRootLoop(g, k + 1, r.visited, r.recursionStack)

dagIsCyclicalDFS(g) == isCyclicalRootLoop(g, 1, {}, {})

RECURSIVE isCyclicalRootStarts(_, _, _, _)

\* the same loop, observed: the node, the visited set and the recursionStack
\* each time the loop calls dagDFS for a node of graph.nodes
isCyclicalRootStarts(g, k, visited, recursionStack) ==
  IF k > Len(g.nodes)
  THEN <<>>
  ELSE
    LET r == isCyclicalDFS(g, g.nodes[k], visited, recursionStack)
        start == [node |-> g.nodes[k], visited |-> visited,
                  recursionStack |-> recursionStack]
    IN IF r.found
       THEN <<start>>
       ELSE <<start>> \o isCyclicalRootStarts(g, k + 1, r.visited, r.recursionStack)

\* ------------------------------------------------------------------------
\* dagCyclesDFS
\* ------------------------------------------------------------------------

RECURSIVE cyclesDFS(_, _, _), cyclesEdgeLoop(_, _, _, _)

\* the inner dagDFS(node, visited, recursionStack, cycleNodes, cycleEdges);
\* st carries the four collections, the result adds the boolean returned
cyclesDFS(g, node, st) ==
  LET nodeId == identity(node)
  IN cyclesEdgeLoop(g, node, 1,
       [visited |-> st.visited \cup {nodeId},
        recursionStack |-> st.recursionStack \cup {nodeId},
        cycleNodes |-> Append(st.cycleNodes, node),
        cycleEdges |-> st.cycleEdges])

\* cyclesEdgeLoop without `cycleEdges.pop()` after a neighbour was explored
cyclesEdgeLoop_NoEdgePop(g, node, i, st) ==
  IF i > Len(g.edges)
  THEN [found |-> FALSE,
        visited |-> st.visited,
        recursionStack |-> st.recursionStack \ {identity(node)},
        cycleNodes |-> SubSeq(st.cycleNodes, 1, Len(st.cycleNodes) - 1),
        cycleEdges |-> st.cycleEdges]
  ELSE
    LET edge == g.edges[i]
        neighbour == edge.to
        pushed == [st EXCEPT !.cycleEdges = Append(st.cycleEdges, edge)]
    IN
    IF compare(edge.from, node) = 0
    THEN
      IF identity(neighbour) \notin pushed.visited
      THEN
        LET r == cyclesDFS(g, neighbour, pushed)
        IN IF r.found
           THEN r
           ELSE cyclesEdgeLoop(g, node, i + 1,
                  [visited |-> r.visited,
                   recursionStack |-> r.recursionStack,
                   cycleNodes |-> r.cycleNodes,
                   cycleEdges |-> r.cycleEdges])
      ELSE
        IF identity(neighbour) \in pushed.recursionStack
        THEN [found |-> TRUE,
              visited |-> pushed.visited,
              recursionStack |-> pushed.recursionStack,
              cycleNodes |-> pushed.cycleNodes,
              cycleEdges |-> pushed.cycleEdges]
        ELSE cyclesEdgeLoop(g, node, i + 1, pushed)
    ELSE cyclesEdgeLoop(g, node, i + 1, st)

\* `for (const edge of graph.edges)` of that dagDFS, from the i-th edge on
cyclesEdgeLoop(g, node, i, st) ==
  IF i > Len(g.edges)
  THEN [found |-> FALSE,
        visited |-> st.visited,
        recursionStack |-> st.recursionStack \ {identity(node)},
        cycleNodes |-> SubSeq(st.cycleNodes, 1, Len(st.cycleNodes) - 1),
        cycleEdges |-> st.cycleEdges]
  ELSE
    LET edge == g.edges[i]
        neighbour == edge.to
        pushed == [st EXCEPT !.cycleEdges = Append(st.cycleEdges, edge)]
    IN
    IF compare(edge.from, node) = 0
    THEN
      IF identity(neighbour) \notin pushed.visited
      THEN
        LET r == cyclesDFS(g, neighbour, pushed)
        IN IF r.found
           THEN r
           ELSE cyclesEdgeLoop(g, node, i + 1,
                  [visited |-> r.visited,
                   recursionStack |-> r.recursionStack,
                   cycleNodes |-> r.cycleNodes,
                   cycleEdges |-> SubSeq(r.cycleEdges, 1, Len(r.cycleEdges) - 1)])
      ELSE
        IF identity(neighbour) \in pushed.recursionStack
        THEN [found |-> TRUE,
              visited |-> pushed.visited,
              recursionStack |-> pushed.recursionStack,
              cycleNodes |-> pushed.cycleNodes,
              cycleEdges |-> pushed.cycleEdges]
        ELSE cyclesEdgeLoop(g, node, i + 1, st)
    ELSE cyclesEdgeLoop(g, node, i + 1, st)

RECURSIVE cyclesRootLoop(_, _, _, _, _)

\* cyclesRootLoop with cycleNodes and cycleEdges made once, before the loop:
\* a root starts on the path the last record was taken from
cyclesRootLoop_PathKept(g, k, visited, recursionStack, cycleList) ==
  IF k > Len(g.nodes)
  THEN cycleList
  ELSE
    LET node == g.nodes[k]
        kept == IF cycleList = <<>>
                THEN [cycleNodes |-> <<>>, cycleEdges |-> <<>>]
                ELSE cycleList[Len(cycleList)]
    IN
    IF identity(node) \notin visited
    THEN
      LET r == cyclesDFS(g, node,
                 [visited |-> visited, recursionStack |-> recursionStack,
                  cycleNodes |-> kept.cycleNodes, cycleEdges |-> kept.cycleEdges])
      IN cyclesRootLoop(g, k + 1, r.visited, r.recursionStack,
           IF r.found
           THEN Append(cycleList,
                  [cycleNodes |-> r.cycleNodes, cycleEdges |-> r.cycleEdges])
           ELSE cycleList)
    ELSE cyclesRootLoop(g, k + 1, visited, recursionStack, cycleList)

\* `for (const node of graph.nodes)` of dagCyclesDFS, from the k-th node on
cyclesRootLoop(g, k, visited, recursionStack, cycleList) ==
  IF k > Len(g.nodes)
  THEN cycleList
  ELSE
    LET node == g.nodes[k]
    IN
    IF identity(node) \notin visited
    THEN
      LET r == cyclesDFS(g, node,
                 [visited |-> visited, recursionStack |-> recursionStack,
                  cycleNodes |-> <<>>, cycleEdges |-> <<>>])
      IN cyclesRootLoop(g, k + 1, r.visited, r.recursionStack,
           IF r.found
           THEN Append(cycleList,
                  [cycleNodes |-> r.cycleNodes, cycleEdges |-> r.cycleEdges])
           ELSE cycleList)
    ELSE cyclesRootLoop(g, k + 1, visited, recursionStack, cycleList)

dagCyclesDFS(g) == cyclesRootLoop(g, 1, {}, {}, <<>>)

RECURSIVE cyclesRootStarts(_, _, _, _)

\* the same loop, observed: the node, the visited set and the recursionStack
\* each time the loop calls dagDFS for a node of graph.nodes
cyclesRootStarts(g, k, visited, recursionStack) ==
  IF k > Len(g.nodes)
  THEN <<>>
  ELSE
    LET node == g.nodes[k]
    IN
    IF identity(node) \notin visited
    THEN
      LET r == cyclesDFS(g, node,
                 [visited |-> visited, recursionStack |-> recursionStack,
                  cycleNodes |-> <<>>, cycleEdges |-> <<>>])
      IN <<[node |-> node, visited |-> visited, recursionStack |-> recursionStack]>>
           \o cyclesRootStarts(g, k + 1, r.visited, r.recursionStack)
    ELSE cyclesRootStarts(g, k + 1, visited, recursionStack)

\* ------------------------------------------------------------------------
\* dagTopologicalSortDFS
\* ------------------------------------------------------------------------

RECURSIVE topologicalSortDFS(_, _, _), topologicalSortEdgeLoop(_, _, _, _)

\* the inner dagDFS(node) over the closure's visited set and result stack
topologicalSortDFS(g, node, st) ==
  topologicalSortEdgeLoop(g, node, 1,
    [visited |-> st.visited \cup {identity(node)}, stack |-> st.stack])

\* `for (const edge of graph.edges)` of that dagDFS, from the i-th edge on,
\* and the stack.push(node) after the loop
topologicalSortEdgeLoop(g, node, i, st) ==
  IF i > Len(g.edges)
  THEN [visited |-> st.visited, stack |-> Append(st.stack, node)]
  ELSE
    LET edge == g.edges[i]
        neighbour == edge.to
    IN
    IF compare(edge.from, node) = 0 /\ identity(neighbour) \notin st.visited
    THEN topologicalSortEdgeLoop(g, node, i + 1, topologicalSortDFS(g, neighbour, st))
    ELSE topologicalSortEdgeLoop(g, node, i + 1, st)

RECURSIVE topologicalSortRootLoop(_, _, _)

\* topologicalSortRootLoop without the `!visited.has(identity(node))` test
topologicalSortRootLoop_NoVisitedTest(g, k, st) ==
  IF k > Len(g.nodes)
  THEN st
  ELSE topologicalSortRootLoop(g, k + 1, topologicalSortDFS(g, g.nodes[k], st))

\* `for (const node of graph.nodes)` of dagTopologicalSortDFS, from the k-th node on
topologicalSortRootLoop(g, k, st) ==
  IF k > Len(g.nodes)
  THEN st
  ELSE
    IF identity(g.nodes[k]) \notin st.visited
    THEN topologicalSortRootLoop(g, k + 1, topologicalSortDFS(g, g.nodes[k], st))
    ELSE topologicalSortRootLoop(g, k + 1, st)

\* Array.prototype.reverse
Reverse(s) == [i \in 1..Len(s) |-> s[Len(s) + 1 - i]]

\* dagTopologicalSortDFS returning the stack without reversing it
dagTopologicalSortDFS_NoReverse(g) ==
  topologicalSortRootLoop(g, 1, [visited |-> {}, stack |-> <<>>]).stack

\* dagTopologicalSortDFS with a visited set that outlives the call: it starts
\* from the identities the call before it has visited
dagTopologicalSortDFS_VisitedKept(g) ==
  Reverse(topologicalSortRootLoop(g, 1,
    [visited |-> {identity(n) : n \in Range(ret.topologicalSort)},
     stack |-> <<>>]).stack)

dagTopologicalSortDFS(g) ==
  Reverse(topologicalSortRootLoop(g, 1, [visited |-> {}, stack |-> <<>>]).stack)

\* ------------------------------------------------------------------------
\* The three depth-first searches, observed
\* ------------------------------------------------------------------------

\* The same loops and inner dagDFS functions as above, with a log of every
\* call of dagDFS: the node entered, the depth of the call (1 for a call made
\* by the top-level loop) and whether the identity of the node was unvisited
\* when the call was made.  A call deeper than DepthLimit is logged and not
\* carried out (cut): a search that would nest without end is seen as a cut.
DepthLimit == Cardinality(Node) + 1

Entered(st, node, depth) ==
  [st EXCEPT !.entries =
     Append(@, [node |-> node, depth |-> depth,
                fresh |-> identity(node) \notin st.visited])]

RECURSIVE isCyclicalTracedDFS(_, _, _, _), isCyclicalTracedEdgeLoop(_, _, _, _, _)

\* the inner dagDFS of dagIsCyclicalDFS
isCyclicalTracedDFS(g, node, depth, st) ==
  LET nodeId == identity(node)
      entered == Entered(st, node, depth)
  IN IF depth > DepthLimit
     THEN [entered EXCEPT !.cut = TRUE]
     ELSE isCyclicalTracedEdgeLoop(g, node, 1, depth,
            [entered EXCEPT !.visited = @ \cup {nodeId},
                            !.recursionStack = @ \cup {nodeId}])

\* `for (const edge of graph.edges)` of that dagDFS, from the i-th edge on
isCyclicalTracedEdgeLoop(g, node, i, depth, st) ==
  IF i > Len(g.edges)
  THEN [st EXCEPT !.found = FALSE, !.recursionStack = @ \ {identity(node)}]
  ELSE
    LET edge == g.edges[i]
        neighbour == edge.to
    IN
    IF compare(edge.from, node) = 0
    THEN
      IF identity(neighbour) \notin st.visited
      THEN
        LET r == isCyclicalTracedDFS(g, neighbour, depth + 1, st)
        IN IF r.found \/ r.cut
           THEN r
           ELSE IF identity(neighbour) \in r.recursionStack
                THEN [r EXCEPT !.found = TRUE]
                ELSE isCyclicalTracedEdgeLoop(g, node, i + 1, depth, r)
      ELSE
        IF identity(neighbour) \in st.recursionStack
        THEN [st EXCEPT !.found = TRUE]
        ELSE isCyclicalTracedEdgeLoop(g, node, i + 1, depth, st)
    ELSE isCyclicalTracedEdgeLoop(g, node, i + 1, depth, st)

RECURSIVE isCyclicalTracedRootLoop(_, _, _)

\* isCyclicalTracedRootLoop passing over the nodes whose identity is visited
isCyclicalTracedRootLoop_VisitedTest(g, k, st) ==
  IF k > Len(g.nodes)
  THEN st
  ELSE
    IF identity(g.nodes[k]) \notin st.visited
    THEN
      LET r == isCyclicalTracedDFS(g, g.nodes[k], 1, st)
      IN IF r.found \/ r.cut
         THEN r
         ELSE isCyclicalTracedRootLoop(g, k + 1, r)
    ELSE isCyclicalTracedRootLoop(g, k + 1, st)

\* `for (const node of graph.nodes)` of dagIsCyclicalDFS, from the k-th node on
isCyclicalTracedRootLoop(g, k, st) ==
  IF k > Len(g.nodes)
  THEN st
  ELSE
    LET r == isCyclicalTracedDFS(g, g.nodes[k], 1, st)
    IN IF r.found \/ r.cut
       THEN r
       ELSE isCyclicalTracedRootLoop(g, k + 1, r)

dagIsCyclicalTraced(g) ==
  isCyclicalTracedRootLoop(g, 1,
    [found |-> FALSE, visited |-> {}, recursionStack |-> {},
     entries |-> <<>>, cut |-> FALSE])

RECURSIVE cyclesTracedDFS(_, _, _, _), cyclesTracedEdgeLoop(_, _, _, _, _)

\* cyclesTracedDFS without `visited.add(nodeId)`
cyclesTracedDFS_NoVisitedAdd(g, node, depth, st) ==
  LET nodeId == identity(node)
      entered == Entered(st, node, depth)
  IN IF depth > DepthLimit
     THEN [entered EXCEPT !.cut = TRUE]
     ELSE cyclesTracedEdgeLoop(g, node, 1, depth,
            [entered EXCEPT !.recursionStack = @ \cup {nodeId},
                            !.cycleNodes = Append(@, node)])

\* the inner dagDFS of dagCyclesDFS
cyclesTracedDFS(g, node, depth, st) ==
  LET nodeId == identity(node)
      entered == Entered(st, node, depth)
  IN IF depth > DepthLimit
     THEN [entered EXCEPT !.cut = TRUE]
     ELSE cyclesTracedEdgeLoop(g, node, 1, depth,
            [entered EXCEPT !.visited = @ \cup {nodeId},
                            !.recursionStack = @ \cup {nodeId},
                            !.cycleNodes = Append(@, node)])

\* `for (const edge of graph.edges)` of that dagDFS, from the i-th edge on
cyclesTracedEdgeLoop(g, node, i, depth, st) ==
  IF i > Len(g.edges)
  THEN [st EXCEPT !.found = FALSE,
                  !.recursionStack = @ \ {identity(node)},
                  !.cycleNodes = SubSeq(@, 1, Len(@) - 1)]
  ELSE
    LET edge == g.edges[i]
        neighbour == edge.to
        pushed == [st EXCEPT !.cycleEdges = Append(@, edge)]
    IN
    IF compare(edge.from, node) = 0
    THEN
      IF identity(neighbour) \notin pushed.visited
      THEN
        LET r == cyclesTracedDFS(g, neighbour, depth + 1, pushed)
        IN IF r.found \/ r.cut
           THEN r
           ELSE cyclesTracedEdgeLoop(g, node, i + 1, depth,
                  [r EXCEPT !.cycleEdges = SubSeq(@, 1, Len(@) - 1)])
      ELSE
        IF identity(neighbour) \in pushed.recursionStack
        THEN [pushed EXCEPT !.found = TRUE]
        ELSE cyclesTracedEdgeLoop(g, node, i + 1, depth, st)
    ELSE cyclesTracedEdgeLoop(g, node, i + 1, depth, st)

RECURSIVE cyclesTracedRootLoop(_, _, _, _)

\* `for (const node of graph.nodes)` of dagCyclesDFS, from the k-th node on
cyclesTracedRootLoop(g, k, st, cycleList) ==
  IF k > Len(g.nodes) \/ st.cut
  THEN [cycleList |-> cycleList, entries |-> st.entries, cut |-> st.cut]
  ELSE
    LET node == g.nodes[k]
    IN
    IF identity(node) \notin st.visited
    THEN
      LET r == cyclesTracedDFS(g, node, 1,
                 [st EXCEPT !.found = FALSE, !.cycleNodes = <<>>, !.cycleEdges = <<>>])
      IN cyclesTracedRootLoop(g, k + 1, r,
           IF r.found
           THEN Append(cycleList,
                  [cycleNodes |-> r.cycleNodes, cycleEdges |-> r.cycleEdges])
           ELSE cycleList)
    ELSE cyclesTracedRootLoop(g, k + 1, st, cycleList)

dagCyclesTraced(g) ==
  cyclesTracedRootLoop(g, 1,
    [found |-> FALSE, visited |-> {}, recursionStack |-> {},
     cycleNodes |-> <<>>, cycleEdges |-> <<>>, entries |-> <<>>, cut |-> FALSE],
    <<>>)

RECURSIVE topologicalSortTracedDFS(_, _, _, _), topologicalSortTracedEdgeLoop(_, _, _, _, _)

\* topologicalSortTracedDFS without `visited.add(identity(node))`
topologicalSortTracedDFS_NoVisitedAdd(g, node, depth, st) ==
  LET entered == Entered(st, node, depth)
  IN IF depth > DepthLimit
     THEN [entered EXCEPT !.cut = TRUE]
     ELSE topologicalSortTracedEdgeLoop(g, node, 1, depth, entered)

\* the inner dagDFS of dagTopologicalSortDFS
topologicalSortTracedDFS(g, node, depth, st) ==
  LET entered == Entered(st, node, depth)
  IN IF depth > DepthLimit
     THEN [entered EXCEPT !.cut = TRUE]
     ELSE topologicalSortTracedEdgeLoop(g, node, 1, depth,
            [entered EXCEPT !.visited = @ \cup {identity(node)}])

\* `for (const edge of graph.edges)` of that dagDFS, from the i-th edge on,
\* and the stack.push(node) after the loop
topologicalSortTracedEdgeLoop(g, node, i, depth, st) ==
  IF st.cut
  THEN st
  ELSE
    IF i > Len(g.edges)
    THEN [st EXCEPT !.stack = Append(@, node)]
    ELSE
      LET edge == g.edges[i]
          neighbour == edge.to
      IN
      IF compare(edge.from, node) = 0 /\ identity(neighbour) \notin st.visited
      THEN topologicalSortTracedEdgeLoop(g, node, i + 1, depth,
             topologicalSortTracedDFS(g, neighbour, depth + 1, st))
      ELSE topologicalSortTracedEdgeLoop(g, node, i + 1, depth, st)

RECURSIVE topologicalSortTracedRootLoop(_, _, _)

\* `for (const node of graph.nodes)` of dagTopologicalSortDFS, from the k-th
\* node on
topologicalSortTracedRootLoop(g, k, st) ==
  IF k > Len(g.nodes) \/ st.cut
  THEN st
  ELSE
    IF identity(g.nodes[k]) \notin st.visited
    THEN topologicalSortTracedRootLoop(g, k + 1,
           topologicalSortTracedDFS(g, g.nodes[k], 1, st))
    ELSE topologicalSortTracedRootLoop(g, k + 1, st)

dagTopologicalSortTraced(g) ==
  LET r == topologicalSortTracedRootLoop(g, 1,
             [visited |-> {}, stack |-> <<>>, entries |-> <<>>, cut |-> FALSE])
  IN [sort |-> Reverse(r.stack), entries |-> r.entries, cut |-> r.cut]

\* ------------------------------------------------------------------------
\* dagDependencies
\* ------------------------------------------------------------------------

\* the Map nodeIndex after the loop that fills it: a later position replaces
\* an earlier one of the same identity.  Positions are 1-based here.
nodeIndexOf(topologicalSort) ==
  [id \in {identity(topologicalSort[i]) : i \in 1..Len(topologicalSort)} |->
     CHOOSE i \in 1..Len(topologicalSort) :
       /\ identity(topologicalSort[i]) = id
       /\ \A j \in 1..Len(topologicalSort) :
            identity(topologicalSort[j]) = id => j <= i]

\* dependenciesBefore with the loop test `i > 0`: the first node of the sort
\* is never reached
dependenciesBefore_StopsEarly(topologicalSort, targetIndex) ==
  [k \in 1..(targetIndex - 2) |-> topologicalSort[targetIndex - k]]

\* dependenciesBefore walking up from the start of the sort to the target
dependenciesBefore_Ascending(topologicalSort, targetIndex) ==
  [k \in 1..(targetIndex - 1) |-> topologicalSort[k]]

\* `for (let i = targetIndex - 1; i >= 0; i--)`: the nodes before the target,
\* pushed walking away from the target
dependenciesBefore(topologicalSort, targetIndex) ==
  [k \in 1..(targetIndex - 1) |-> topologicalSort[targetIndex - k]]

\* dependentsAfter with the loop starting at targetIndex itself
dependentsAfter_FromTarget(topologicalSort, targetIndex) ==
  [k \in 1..(Len(topologicalSort) - targetIndex + 1) |-> topologicalSort[targetIndex + k - 1]]

\* `for (let i = targetIndex + 1; i < topologicalSort.length; i++)`
dependentsAfter(topologicalSort, targetIndex) ==
  [k \in 1..(Len(topologicalSort) - targetIndex) |-> topologicalSort[targetIndex + k]]

RECURSIVE remainingLoop_NoVisitedTest(_, _, _, _, _), remainingLoop_SwappedCompare(_, _, _, _, _)

\* remainingLoop without the `!visited.has(nodeId)` test
remainingLoop_NoVisitedTest(g, k, visited, targetNode, acc) ==
  IF k > Len(g.nodes)
  THEN acc
  ELSE
    LET node == g.nodes[k]
    IN
    IF compare(node, targetNode) < 0
    THEN remainingLoop_NoVisitedTest(g, k + 1, visited, targetNode,
           [acc EXCEPT !.dependencies = Append(@, node)])
    ELSE IF compare(node, targetNode) > 0
         THEN remainingLoop_NoVisitedTest(g, k + 1, visited, targetNode,
                [acc EXCEPT !.dependents = Append(@, node)])
         ELSE remainingLoop_NoVisitedTest(g, k + 1, visited, targetNode, acc)

\* remainingLoop calling compare(targetNode, node)
remainingLoop_SwappedCompare(g, k, visited, targetNode, acc) ==
  IF k > Len(g.nodes)
  THEN acc
  ELSE
    LET node == g.nodes[k]
    IN
    IF identity(node) \notin visited
    THEN
      IF compare(targetNode, node) < 0
      THEN remainingLoop_SwappedCompare(g, k + 1, visited, targetNode,
             [acc EXCEPT !.dependencies = Append(@, node)])
      ELSE IF compare(targetNode, node) > 0
           THEN remainingLoop_SwappedCompare(g, k + 1, visited, targetNode,
                  [acc EXCEPT !.dependents = Append(@, node)])
           ELSE remainingLoop_SwappedCompare(g, k + 1, visited, targetNode, acc)
    ELSE remainingLoop_SwappedCompare(g, k + 1, visited, targetNode, acc)

RECURSIVE remainingLoop(_, _, _, _, _)

\* `for (const node of graph.nodes)`, "check remaining nodes that are not
\* visited", from the k-th node on
remainingLoop(g, k, visited, targetNode, acc) ==
  IF k > Len(g.nodes)
  THEN acc
  ELSE
    LET node == g.nodes[k]
    IN
    IF identity(node) \notin visited
    THEN
      IF compare(node, targetNode) < 0
      THEN remainingLoop(g, k + 1, visited, targetNode,
             [acc EXCEPT !.dependencies = Append(@, node)])
      ELSE IF compare(node, targetNode) > 0
           THEN remainingLoop(g, k + 1, visited, targetNode,
                  [acc EXCEPT !.dependents = Append(@, node)])
           ELSE remainingLoop(g, k + 1, visited, targetNode, acc)
    ELSE remainingLoop(g, k + 1, visited, targetNode, acc)

\* dagDependencies with the two loops filling each other's list
dagDependencies_ListsSwapped(g, targetNode) ==
  LET topologicalSort == dagTopologicalSortDFS(g)
      nodeIndex == nodeIndexOf(topologicalSort)
      found == identity(targetNode) \in DOMAIN nodeIndex
      targetIndex == nodeIndex[identity(targetNode)]
      dependencies == IF found THEN dependentsAfter(topologicalSort, targetIndex) ELSE <<>>
      dependents == IF found THEN dependenciesBefore(topologicalSort, targetIndex) ELSE <<>>
      visited == {identity(n) : n \in Range(dependencies) \cup Range(dependents)}
  IN remainingLoop(g, 1, visited, targetNode,
       [dependencies |-> dependencies, dependents |-> dependents])

dagDependencies(g, targetNode) ==
  LET topologicalSort == dagTopologicalSortDFS(g)
      nodeIndex == nodeIndexOf(topologicalSort)
      found == identity(targetNode) \in DOMAIN nodeIndex
      targetIndex == nodeIndex[identity(targetNode)]
      dependencies == IF found THEN dependenciesBefore(topologicalSort, targetIndex) ELSE <<>>
      dependents == IF found THEN dependentsAfter(topologicalSort, targetIndex) ELSE <<>>
      visited == {identity(n) : n \in Range(dependencies) \cup Range(dependents)}
  IN remainingLoop(g, 1, visited, targetNode,
       [dependencies |-> dependencies, dependents |-> dependents])

\* ------------------------------------------------------------------------
\* graphPlantUmlDiagram
\* ------------------------------------------------------------------------

\* A string is the sequence of its pieces; the line feed is the piece "\n"
\* and no other piece contains one.

\* pumlOptions.node and pumlOptions.edge of a caller who labels a node with
\* its name and gives features to the nodes in tagged and to the edges
\* leaving them
pumlNode(node, tagged) ==
  [text |-> node, features |-> IF node \in tagged THEN "<<tagged>>" ELSE ""]

pumlEdge(edge, tagged) ==
  [fromText |-> edge.from, toText |-> edge.to,
   features |-> IF edge.from \in tagged THEN "#red" ELSE ""]

\* `${text}${features ? ` ${features}` : ""}`
nodeLine(node, tagged) ==
  LET label == pumlNode(node, tagged)
  IN <<label.text>> \o (IF label.features # "" THEN <<" ", label.features>> ELSE <<>>)

\* `${fromText} --> ${toText}${features ? ` ${features}` : ""}`
edgeLine(edge, tagged) ==
  LET label == pumlEdge(edge, tagged)
  IN <<label.fromText, " --> ", label.toText>>
       \o (IF label.features # "" THEN <<" ", label.features>> ELSE <<>>)

RECURSIVE join(_, _)

\* Array.prototype.join: the empty string for no lines, else the lines with
\* the separator between each two
join(lines, separator) ==
  IF Len(lines) = 0 THEN <<>>
  ELSE IF Len(lines) = 1 THEN lines[1]
  ELSE lines[1] \o <<separator>> \o join(Tail(lines), separator)

\* graphPlantUmlDiagram_EdgesFirst writes the edge lines before the node lines
graphPlantUmlDiagram_EdgesFirst(g, tagged) ==
  LET nodeLines == [i \in 1..Len(g.nodes) |-> nodeLine(g.nodes[i], tagged)]
      edgeLines == [i \in 1..Len(g.edges) |-> edgeLine(g.edges[i], tagged)]
  IN <<"@startuml", "\n">> \o join(edgeLines, "\n") \o <<"\n">>
       \o join(nodeLines, "\n") \o <<"\n", "@enduml">>

\* `@startuml\n${nodeLines.join("\n")}\n${edgeLines.join("\n")}\n@enduml`
graphPlantUmlDiagram(g, tagged) ==
  LET nodeLines == [i \in 1..Len(g.nodes) |-> nodeLine(g.nodes[i], tagged)]
      edgeLines == [i \in 1..Len(g.edges) |-> edgeLine(g.edges[i], tagged)]
  IN <<"@startuml", "\n">> \o join(nodeLines, "\n") \o <<"\n">>
       \o join(edgeLines, "\n") \o <<"\n", "@enduml">>

\* ------------------------------------------------------------------------
\* Inputs
\* ------------------------------------------------------------------------

\* the graphs over the nodes S with at most n edges; the edges may point
\* anywhere in S, also outside the node list
Graphs(S, n) ==
  [nodes : SeqsNoDup(S, Cardinality(S)), edges : SeqsNoDup(Edge(S), n)]

\* the input contract of the library: every edge endpoint is in nodes
EndpointsInNodes(g) ==
  \A i \in 1..Len(g.edges) :
    g.edges[i].from \in Range(g.nodes) /\ g.edges[i].to \in Range(g.nodes)

\* identities are unique: no two node objects share a NodeID
UniqueIdentities == \A a, b \in Node : idOf[a] = idOf[b] => a = b

\* the comparator returns 0 exactly for nodes of equal identity
ComparatorConsistent == \A a, b \in Node : (compare(a, b) = 0) <=> (idOf[a] = idOf[b])

Rank == [n \in Node |-> CASE n = "A" -> 1 [] n = "B" -> 2 [] n = "C" -> 3 [] n = "D" -> 4]

\* no call made yet, and the empty result slots
NoCall == [op |-> "none", node |-> "-", tagged |-> {}]
NoRet ==
  [isCyclical |-> FALSE, cycles |-> <<>>, topologicalSort |-> <<>>,
   deps |-> [dependencies |-> <<>>, dependents |-> <<>>], diagram |-> <<>>]

\* What the observer of repeated calls has noted, per operation: nothing, or
\* the result of the first call, or that and the result of the latest call.
\* For deps the calls for the target of the first call are noted.  An
\* observer who is not kept (kept = FALSE) notes nothing.
NoHistory(kept) ==
  [kept |-> kept, isCyclical |-> <<>>, cycles |-> <<>>, topologicalSort |-> <<>>,
   deps |-> <<>>, target |-> "-"]

Noted(slot, result) == IF slot = <<>> THEN <<result>> ELSE <<slot[1], result>>

Remember(h, c, r) ==
  IF ~h.kept THEN h
  ELSE CASE c.op = "isCyclical" -> [h EXCEPT !.isCyclical = Noted(@, r.isCyclical)]
         [] c.op = "cycles" -> [h EXCEPT !.cycles = Noted(@, r.cycles)]
         [] c.op = "topologicalSort" ->
              [h EXCEPT !.topologicalSort = Noted(@, r.topologicalSort)]
         [] c.op = "deps" ->
              IF h.target = "-"
              THEN [h EXCEPT !.target = c.node, !.deps = <<r.deps>>]
              ELSE IF h.target = c.node
                   THEN [h EXCEPT !.deps = Noted(@, r.deps)]
                   ELSE h
         [] OTHER -> h

\* a conforming caller: unique identities, a comparator that is a total order
\* (ascending or descending), every edge endpoint in nodes
Init ==
  /\ graph \in {g \in Graphs(Node3, MaxEdges) : EndpointsInNodes(g)}
  /\ idOf = [n \in Node |-> n]
  /\ keyOf \in {Rank, [n \in Node |-> 5 - Rank[n]]}
  /\ call = NoCall
  /\ ret = NoRet
  /\ history = NoHistory(FALSE)

\* NodeIDs are only ever tested for equality, so an identity function is
\* given by the classes it makes: every node gets the name of the first node
\* of its class.  "D" keeps an identity of its own.
Identities ==
  {f \in [Node -> Node] :
     /\ f["D"] = "D"
     /\ \A n \in Node3 : f[n] \in Node3 /\ Rank[f[n]] <= Rank[n] /\ f[f[n]] = f[n]}

\* only the sign of compare is ever used, so a comparator is given by the
\* weak order of its keys: the keys of A, B, C fill 1..m, ties allowed
Comparators ==
  {k \in [Node -> 1..4] :
     /\ k["D"] = 4
     /\ \A n \in Node3 : k[n] <= 3
     /\ \A v \in 1..3 : (\E n \in Node3 : k[n] > v) => (\E n \in Node3 : k[n] = v)}

\* any caller: edges may leave the node list, nodes may share an identity,
\* the comparator may tie different nodes or tell apart equal identities
InitLoose ==
  /\ graph \in Graphs(Node3, MaxEdgesAny)
  /\ idOf \in Identities
  /\ keyOf \in Comparators
  /\ call = NoCall
  /\ ret = NoRet
  /\ history = NoHistory(FALSE)

\* a caller with unique identities and a consistent comparator whose edges
\* may start or end at nodes that are not in the node list
InitUnique ==
  /\ graph \in Graphs(Node3, MaxEdgesDangling)
  /\ idOf = [n \in Node |-> n]
  /\ keyOf = Rank
  /\ call = NoCall
  /\ ret = NoRet
  /\ history = NoHistory(FALSE)

\* the diamond A->B, A->C, B->D, C->D
DiamondEdges ==
  {[from |-> "A", to |-> "B"], [from |-> "A", to |-> "C"],
   [from |-> "B", to |-> "D"], [from |-> "C", to |-> "D"]}

\* all orderings of the elements of the set S
Orderings(S) == {s \in SeqsNoDup(S, Cardinality(S)) : Len(s) = Cardinality(S)}

InitDiamond ==
  /\ graph \in [nodes : Orderings(Node), edges : Orderings(DiamondEdges)]
  /\ idOf = [n \in Node |-> n]
  /\ keyOf \in {Rank, [n \in Node |-> 5 - Rank[n]]}
  /\ call = NoCall
  /\ ret = NoRet
  /\ history = NoHistory(FALSE)

\* ------------------------------------------------------------------------
\* The operations of the facade dagDepthFirst
\* ------------------------------------------------------------------------

IsCyclical ==
  /\ call' = [op |-> "isCyclical", node |-> "-", tagged |-> {}]
  /\ ret' = [NoRet EXCEPT !.isCyclical = dagIsCyclicalDFS(graph)]
  /\ history' = Remember(history, call', ret')
  /\ UNCHANGED <<graph, idOf, keyOf>>

Cycles ==
  /\ call' = [op |-> "cycles", node |-> "-", tagged |-> {}]
  /\ ret' = [NoRet EXCEPT !.cycles = dagCyclesDFS(graph)]
  /\ history' = Remember(history, call', ret')
  /\ UNCHANGED <<graph, idOf, keyOf>>

\* TopologicalSort with the reversal done on the node list of the graph
TopologicalSort_ReversesNodes ==
  /\ call' = [op |-> "topologicalSort", node |-> "-", tagged |-> {}]
  /\ ret' = [NoRet EXCEPT !.topologicalSort = dagTopologicalSortDFS(graph)]
  /\ history' = Remember(history, call', ret')
  /\ graph' = [graph EXCEPT !.nodes = Reverse(@)]
  /\ UNCHANGED <<idOf, keyOf>>

TopologicalSort ==
  /\ call' = [op |-> "topologicalSort", node |-> "-", tagged |-> {}]
  /\ ret' = [NoRet EXCEPT !.topologicalSort = dagTopologicalSortDFS(graph)]
  /\ history' = Remember(history, call', ret')
  /\ UNCHANGED <<graph, idOf, keyOf>>

Deps ==
  \E node \in Node :
    /\ call' = [op |-> "deps", node |-> node, tagged |-> {}]
    /\ ret' = [NoRet EXCEPT !.deps = dagDependencies(graph, node)]
    /\ history' = Remember(history, call', ret')
    /\ UNCHANGED <<graph, idOf, keyOf>>

\* graphPlantUmlDiagram(graph, pumlOptions), with or without features on the
\* labels of node A and of its edges
PlantUml ==
  \E tagged \in {{}, {"A"}} :
    /\ call' = [op |-> "graphPlantUmlDiagram", node |-> "-", tagged |-> tagged]
    /\ ret' = [NoRet EXCEPT !.diagram = graphPlantUmlDiagram(graph, tagged)]
    /\ history' = Remember(history, call', ret')
    /\ UNCHANGED <<graph, idOf, keyOf>>

Next == IsCyclical \/ Cycles \/ TopologicalSort \/ Deps \/ PlantUml

Spec == Init /\ [][Next]_vars

SpecAny == InitLoose /\ [][Next]_vars

SpecDiamond == InitDiamond /\ [][Next]_vars

SpecUnique == InitUnique /\ [][Next]_vars

\* ------------------------------------------------------------------------
\* Graph notions the properties are stated with (none of them used by the
\* operations above)
\* ------------------------------------------------------------------------

\* the input contract of the library (spec section 3)
Contract == UniqueIdentities /\ ComparatorConsistent /\ EndpointsInNodes(graph)

EdgePairs(g) == {<<g.edges[i].from, g.edges[i].to>> : i \in 1..Len(g.edges)}

RECURSIVE TransitiveClosure(_)

TransitiveClosure(R) ==
  LET R2 == R \cup {<<p[1], q[2]>> : p, q \in R}
      R3 == {r \in R2 : r \in R \/ \E p, q \in R : p[2] = q[1] /\ r = <<p[1], q[2]>>}
  IN IF R3 = R THEN R ELSE TransitiveClosure(R3)

\* b is reachable from a along one or more edges
Reaches(g, a, b) == <<a, b>> \in TransitiveClosure(EdgePairs(g))

\* the graph contains a directed cycle (a self-loop is one)
HasCycle(g) == \E n \in Node : Reaches(g, n, n)

\* n occurs in the sequence s; its first position; how often it occurs
In(s, n) == \E i \in 1..Len(s) : s[i] = n
Pos(s, n) == CHOOSE i \in 1..Len(s) : s[i] = n /\ \A j \in 1..(i - 1) : s[j] # n
Count(s, n) == Cardinality({i \in 1..Len(s) : s[i] = n})

\* ------------------------------------------------------------------------
\* Properties
\* ------------------------------------------------------------------------

\* C1: on a graph that meets the input contract (unique identities, compare
\* zero exactly on equal identity, edge endpoints in nodes) isCyclical returns
\* TRUE exactly when the graph contains a directed cycle, self-loops included
C1_IsCyclicalIffCycle ==
  (call.op = "isCyclical" /\ Contract) => (ret.isCyclical <=> HasCycle(graph))

\* isCyclical answered TRUE for a cycle through all three nodes, and the
\* graph has no self-loop
C1_Witness ==
  /\ call.op = "isCyclical"
  /\ Contract
  /\ ret.isCyclical = TRUE
  /\ \A n, m \in Node3 : Reaches(graph, n, m)
  /\ \A i \in 1..Len(graph.edges) : graph.edges[i].from # graph.edges[i].to

\* C2: on an acyclic graph that meets the input contract, in whatever order
\* nodes and edges are listed, topologicalSort places the from node of every
\* edge at a smaller index than its to node
C2_TopologicalOrder ==
  (call.op = "topologicalSort" /\ Contract /\ ~HasCycle(graph)) =>
    \A i \in 1..Len(graph.edges) :
      /\ In(ret.topologicalSort, graph.edges[i].from)
      /\ In(ret.topologicalSort, graph.edges[i].to)
      /\ Pos(ret.topologicalSort, graph.edges[i].from) < Pos(ret.topologicalSort, graph.edges[i].to)

\* topologicalSort ran on an acyclic graph of three edges whose node list is
\* in the opposite of every topological order
C2_Witness ==
  /\ call.op = "topologicalSort"
  /\ Contract
  /\ ~HasCycle(graph)
  /\ Len(graph.edges) = 3
  /\ \A i \in 1..Len(graph.edges) :
       Pos(graph.nodes, graph.edges[i].to) < Pos(graph.nodes, graph.edges[i].from)
  /\ Len(ret.topologicalSort) = 3

\* the record is a path of edges that starts at its DFS root (the first of
\* cycleNodes), each edge leaving the node the one before it entered, and the
\* last edge enters a node of that path
ClosedPath(rec) ==
  LET n == Len(rec.cycleEdges)
  IN /\ n >= 1
     /\ Len(rec.cycleNodes) >= 1
     /\ rec.cycleEdges[1].from = rec.cycleNodes[1]
     /\ \A i \in 1..(n - 1) : rec.cycleEdges[i].to = rec.cycleEdges[i + 1].from
     /\ \E i \in 1..n : rec.cycleEdges[n].to = rec.cycleEdges[i].from

\* the 3-node cycle A->B->C->A
TriangleEdges ==
  {[from |-> "A", to |-> "B"], [from |-> "B", to |-> "C"], [from |-> "C", to |-> "A"]}

IsTriangle(g) == Range(g.nodes) = Node3 /\ Range(g.edges) = TriangleEdges

\* C3: on a graph (meeting the input contract) that contains a directed cycle,
\* cycles returns at least one record whose cycleEdges are a consecutive path
\* from the record's DFS root whose last edge points back into the path; for
\* the 3-node cycle A->B->C->A, in any order of nodes and edges, the path
\* closes at the DFS root itself
C3_CyclesReportsClosedPath ==
  (call.op = "cycles" /\ Contract /\ HasCycle(graph)) =>
    /\ \E k \in 1..Len(ret.cycles) : ClosedPath(ret.cycles[k])
    /\ IsTriangle(graph) =>
         \E k \in 1..Len(ret.cycles) :
           LET rec == ret.cycles[k]
           IN /\ ClosedPath(rec)
              /\ rec.cycleEdges[Len(rec.cycleEdges)].to = rec.cycleNodes[1]

\* cycles ran on a cyclic graph in which a branch was explored and abandoned
\* before the cycle was found, and the record closes at a node that is not
\* the DFS root
C3_Witness ==
  /\ call.op = "cycles"
  /\ Contract
  /\ HasCycle(graph)
  /\ Len(graph.edges) = 3
  /\ Len(ret.cycles) = 1
  /\ ClosedPath(ret.cycles[1])
  /\ Len(ret.cycles[1].cycleEdges) = 2
  /\ ret.cycles[1].cycleEdges[2].to # ret.cycles[1].cycleNodes[1]

\* C4: if the graph has a self-loop on one of its nodes, isCyclical returns
\* TRUE and cycles returns a record whose cycleNodes holds that node and
\* whose cycleEdges holds the self-loop edge, whatever the other edges and
\* whatever the order of nodes and edges
C4_SelfLoopReported ==
  Contract =>
    \A i \in 1..Len(graph.edges) :
      LET e == graph.edges[i]
      IN (e.from = e.to /\ In(graph.nodes, e.from)) =>
           /\ call.op = "isCyclical" => ret.isCyclical
           /\ call.op = "cycles" =>
                \E k \in 1..Len(ret.cycles) :
                  /\ In(ret.cycles[k].cycleNodes, e.from)
                  /\ In(ret.cycles[k].cycleEdges, e)

\* C5: on an acyclic graph (meeting the input contract) and a target among
\* its nodes, dependencies holds every node from which the target can be
\* reached and dependents every node that can be reached from the target
C5_DepsCoverReachability ==
  (call.op = "deps" /\ Contract /\ ~HasCycle(graph) /\ In(graph.nodes, call.node)) =>
    \A n \in Node :
      /\ Reaches(graph, n, call.node) => In(ret.deps.dependencies, n)
      /\ Reaches(graph, call.node, n) => In(ret.deps.dependents, n)

\* deps ran for a target that has a node before it and a node after it on a
\* path, in a graph whose node list starts with the last node of the path
C5_Witness ==
  /\ call.op = "deps"
  /\ Contract
  /\ ~HasCycle(graph)
  /\ In(graph.nodes, call.node)
  /\ \E a, b \in Node3 :
       /\ Reaches(graph, a, call.node)
       /\ Reaches(graph, call.node, b)
       /\ graph.nodes[1] = b
       /\ ret.deps.dependencies = <<a>>
       /\ ret.deps.dependents = <<b>>

IsDiamond(g) == Range(g.nodes) = Node /\ Range(g.edges) = DiamondEdges

\* C6: for the diamond A->B, A->C, B->D, C->D, in every order of the node
\* list and of the edge list, topologicalSort places A before B and C, and B
\* and C before D; deps for D returns exactly A, B, C as dependencies and no
\* dependents
C6_Diamond ==
  IsDiamond(graph) =>
    /\ call.op = "topologicalSort" =>
         /\ Range(ret.topologicalSort) = Node
         /\ Pos(ret.topologicalSort, "A") < Pos(ret.topologicalSort, "B")
         /\ Pos(ret.topologicalSort, "A") < Pos(ret.topologicalSort, "C")
         /\ Pos(ret.topologicalSort, "B") < Pos(ret.topologicalSort, "D")
         /\ Pos(ret.topologicalSort, "C") < Pos(ret.topologicalSort, "D")
    /\ (call.op = "deps" /\ call.node = "D") =>
         /\ Range(ret.deps.dependencies) = {"A", "B", "C"}
         /\ Len(ret.deps.dependencies) = 3
         /\ ret.deps.dependents = <<>>

\* deps ran for D on the diamond listed from D back to A, with the edges
\* into D listed first
C6_Witness ==
  /\ IsDiamond(graph)
  /\ call.op = "deps"
  /\ call.node = "D"
  /\ graph.nodes = <<"D", "C", "B", "A">>
  /\ graph.edges[1].to = "D"
  /\ graph.edges[2].to = "D"
  /\ Len(ret.deps.dependencies) = 3

\* whether the identity of the target of the last deps call is in the
\* topological sort, and where
TargetPresent(sort) ==
  \E i \in 1..Len(sort) : identity(sort[i]) = identity(call.node)

TargetPosition(sort) ==
  CHOOSE i \in 1..Len(sort) : identity(sort[i]) = identity(call.node)

\* x comes before y in list exactly when idx[x] < idx[y], for all x, y of list
OrderedBy(list, idx) ==
  \A i, j \in 1..Len(list) : i < j <=> idx[list[i]] < idx[list[j]]

\* the position of every node of the sequence (0 for the other nodes)
Positions(sort) == [n \in Node |-> IF In(sort, n) THEN Pos(sort, n) ELSE 0]

\* C7: with a comparator consistent with identity and the target's identity
\* present in the topological sort, dependencies is exactly the set of nodes
\* the sort places before the target and dependents exactly the set it
\* places after the target
C7_DepsAreBeforeAndAfter ==
  (call.op = "deps" /\ ComparatorConsistent) =>
    LET sort == dagTopologicalSortDFS(graph)
        t == TargetPosition(sort)
    IN TargetPresent(sort) =>
         /\ Range(ret.deps.dependencies) = {sort[i] : i \in 1..(t - 1)}
         /\ Range(ret.deps.dependents) = {sort[i] : i \in (t + 1)..Len(sort)}

\* deps ran for a target that is only an edge endpoint, not a member of
\* nodes, with a node on either side of it in the sort and a comparator that
\* orders the two the other way round
C7_Witness ==
  /\ call.op = "deps"
  /\ ComparatorConsistent
  /\ TargetPresent(dagTopologicalSortDFS(graph))
  /\ ~In(graph.nodes, call.node)
  /\ Len(ret.deps.dependencies) = 1
  /\ Len(ret.deps.dependents) = 1
  /\ compare(ret.deps.dependencies[1], call.node) > 0
  /\ compare(ret.deps.dependents[1], call.node) < 0

\* C8 as stated: with the target's identity present in the topological sort,
\* both lists keep the order of the sort: x comes before y in dependencies
\* (in dependents) exactly when x comes before y in the sort
C8_DepsKeepSortOrder ==
  call.op = "deps" =>
    LET sort == dagTopologicalSortDFS(graph)
        idx == Positions(sort)
    IN TargetPresent(sort) =>
         /\ OrderedBy(ret.deps.dependencies, idx)
         /\ OrderedBy(ret.deps.dependents, idx)

\* C8 amended: with a comparator consistent with identity and the target's
\* identity present in the topological sort, dependents keeps the order of
\* the sort and dependencies lists its nodes in the reverse of that order
\* (nearest to the target first)
C8_DepsOrderOutwardFromTarget ==
  (call.op = "deps" /\ ComparatorConsistent) =>
    LET sort == dagTopologicalSortDFS(graph)
        idx == Positions(sort)
    IN TargetPresent(sort) =>
         /\ \A i \in 1..Len(ret.deps.dependencies) : In(sort, ret.deps.dependencies[i])
         /\ \A i \in 1..Len(ret.deps.dependents) : In(sort, ret.deps.dependents[i])
         /\ OrderedBy(ret.deps.dependencies, [n \in Node |-> 0 - idx[n]])
         /\ OrderedBy(ret.deps.dependents, idx)

\* deps ran for the last node of a sort of three: two dependencies, the one
\* next to the target listed first
C8_Witness ==
  /\ call.op = "deps"
  /\ ComparatorConsistent
  /\ LET sort == dagTopologicalSortDFS(graph)
     IN /\ TargetPresent(sort)
        /\ Len(sort) = 3
        /\ TargetPosition(sort) = 3
        /\ ret.deps.dependencies = <<sort[2], sort[1]>>

\* C9 as stated: for every graph and target, every node of the graph other
\* than the target is exactly once in exactly one of the two lists, unless
\* compare(node, target) = 0 for it; the target is in neither list
C9_DepsPartitionComplete ==
  call.op = "deps" =>
    /\ \A n \in Range(graph.nodes) :
         (n # call.node /\ compare(n, call.node) # 0) =>
           Count(ret.deps.dependencies, n) + Count(ret.deps.dependents, n) = 1
    /\ Count(ret.deps.dependencies, call.node) + Count(ret.deps.dependents, call.node) = 0

\* C9 amended: the same, for graphs and targets in which no two different
\* nodes share an identity
C9_DepsPartitionCompleteUniqueIds ==
  (call.op = "deps" /\ UniqueIdentities) =>
    /\ \A n \in Range(graph.nodes) :
         (n # call.node /\ compare(n, call.node) # 0) =>
           Count(ret.deps.dependencies, n) + Count(ret.deps.dependents, n) = 1
    /\ Count(ret.deps.dependencies, call.node) + Count(ret.deps.dependents, call.node) = 0

\* deps ran, under unique identities, for a target of a three-node graph
\* that the comparator ties with another node and orders after the third,
\* while the sort places both other nodes after the target
C9_Witness ==
  /\ call.op = "deps"
  /\ UniqueIdentities
  /\ Len(graph.nodes) = 3
  /\ In(graph.nodes, call.node)
  /\ \E n, m \in Range(graph.nodes) :
       /\ n # call.node /\ compare(n, call.node) = 0
       /\ m # call.node /\ compare(m, call.node) < 0
       /\ Range(ret.deps.dependents) = {n, m}
  /\ ret.deps.dependencies = <<>>

\* C10: when the target's identity is absent from the topological sort, deps
\* returns (no error) with every node of graph.nodes classified by the
\* comparator alone: dependencies is exactly the nodes with
\* compare(n, target) < 0, dependents exactly those with compare(n, target) > 0,
\* and the nodes with compare(n, target) = 0 are in neither list
C10_AbsentTargetPartitionsByCompare ==
  (call.op = "deps" /\ ~TargetPresent(dagTopologicalSortDFS(graph))) =>
    LET below == {n \in Range(graph.nodes) : compare(n, call.node) < 0}
        above == {n \in Range(graph.nodes) : compare(n, call.node) > 0}
    IN /\ Range(ret.deps.dependencies) = below
       /\ Len(ret.deps.dependencies) = Cardinality(below)
       /\ Range(ret.deps.dependents) = above
       /\ Len(ret.deps.dependents) = Cardinality(above)

\* deps ran for a target outside the graph: of the two nodes of the graph
\* one compares equal to the target and is left out, the other compares
\* greater and is the only dependent
C10_Witness ==
  /\ call.op = "deps"
  /\ ~TargetPresent(dagTopologicalSortDFS(graph))
  /\ Len(graph.nodes) = 2
  /\ \E n, m \in Range(graph.nodes) :
       /\ compare(n, call.node) = 0
       /\ compare(m, call.node) > 0
       /\ ret.deps.dependents = <<m>>
  /\ ret.deps.dependencies = <<>>

\* C11: an edge (from, to) makes from depend on to: for every edge of an
\* acyclic graph, deps of edge.from has edge.to among its dependencies and
\* deps of edge.to has edge.from among its dependents
C11_FromDependsOnTo ==
  (call.op = "deps" /\ Contract /\ ~HasCycle(graph)) =>
    \A i \in 1..Len(graph.edges) :
      /\ graph.edges[i].from = call.node => In(ret.deps.dependencies, graph.edges[i].to)
      /\ graph.edges[i].to = call.node => In(ret.deps.dependents, graph.edges[i].from)

\* C11, as the code has it: an edge (from, to) makes to depend on from: for
\* every edge of an acyclic graph, deps of edge.to has edge.from among its
\* dependencies and deps of edge.from has edge.to among its dependents
C11_ToDependsOnFrom ==
  (call.op = "deps" /\ Contract /\ ~HasCycle(graph)) =>
    \A i \in 1..Len(graph.edges) :
      /\ graph.edges[i].to = call.node => In(ret.deps.dependencies, graph.edges[i].from)
      /\ graph.edges[i].from = call.node => In(ret.deps.dependents, graph.edges[i].to)

\* deps ran for the middle node of a chain whose nodes are listed against
\* the edges: the from node of its incoming edge is its only dependency, the
\* to node of its outgoing edge its only dependent
C11_Witness ==
  /\ call.op = "deps"
  /\ Contract
  /\ ~HasCycle(graph)
  /\ Len(graph.edges) = 2
  /\ \E a, c \in Range(graph.nodes) :
       /\ a # c /\ a # call.node /\ c # call.node
       /\ graph.edges = <<[from |-> call.node, to |-> c], [from |-> a, to |-> call.node]>>
       /\ graph.nodes = <<c, call.node, a>>
       /\ ret.deps = [dependencies |-> <<a>>, dependents |-> <<c>>]

\* Repeated calls on one facade: a cycle through three nodes or the acyclic
\* A->B, B->C, A->C, nodes and edges listed in every order, and an observer
\* who notes the results
TransitiveEdges ==
  {[from |-> "A", to |-> "B"], [from |-> "B", to |-> "C"], [from |-> "A", to |-> "C"]}

InitRepeat ==
  /\ graph \in [nodes : Orderings(Node3),
                edges : Orderings(TriangleEdges) \cup Orderings(TransitiveEdges)]
  /\ idOf = [n \in Node |-> n]
  /\ keyOf = Rank
  /\ call = NoCall
  /\ ret = NoRet
  /\ history = NoHistory(TRUE)

SpecRepeat == InitRepeat /\ [][Next]_vars

RECURSIVE LinesFrom(_, _, _)

LinesFrom(s, i, lines) ==
  IF i > Len(s)
  THEN lines
  ELSE IF s[i] = "\n"
       THEN LinesFrom(s, i + 1, Append(lines, <<>>))
       ELSE LinesFrom(s, i + 1, [lines EXCEPT ![Len(lines)] = Append(@, s[i])])

Lines(s) == LinesFrom(s, 1, << <<>> >>)

\* a label followed by a space and the features, when there are features
Labelled(label, features) ==
  IF features = "" THEN label ELSE label \o <<" ", features>>

\* the node lines and the edge lines the diagram is to have
NodeLinesOf(g, tagged) ==
  [i \in 1..Len(g.nodes) |->
     Labelled(<<pumlNode(g.nodes[i], tagged).text>>, pumlNode(g.nodes[i], tagged).features)]

EdgeLinesOf(g, tagged) ==
  [i \in 1..Len(g.edges) |->
     Labelled(<<pumlEdge(g.edges[i], tagged).fromText, " --> ",
                pumlEdge(g.edges[i], tagged).toText>>,
              pumlEdge(g.edges[i], tagged).features)]

\* the 2-node 1-edge example and its diagram @startuml\nA\nB\nA --> B\n@enduml
ExampleGraph == [nodes |-> <<"A", "B">>, edges |-> <<[from |-> "A", to |-> "B"]>>]

ExampleDiagram ==
  <<"@startuml", "\n", "A", "\n", "B", "\n", "A", " --> ", "B", "\n", "@enduml">>

\* C14: for every graph, also one with no nodes or no edges, the diagram is
\* exactly the lines @startuml, one line per node in node-list order, one
\* line per edge in edge-list order, @enduml: |nodes| + |edges| + 2 lines,
\* and the example's diagram is as the specification gives it
C14_DiagramLines ==
  call.op = "graphPlantUmlDiagram" =>
    /\ Lines(ret.diagram) =
         << <<"@startuml">> >> \o NodeLinesOf(graph, call.tagged)
           \o EdgeLinesOf(graph, call.tagged) \o << <<"@enduml">> >>
    /\ Len(Lines(ret.diagram)) = Len(graph.nodes) + Len(graph.edges) + 2
    /\ (graph = ExampleGraph /\ call.tagged = {}) => ret.diagram = ExampleDiagram

\* C14, as the code has it: the same lines for a graph with at least one node
\* and at least one edge; an empty node list leaves one empty line in the
\* place of the node lines, an empty edge list one empty line in the place of
\* the edge lines
C14_DiagramLinesEmptySections ==
  call.op = "graphPlantUmlDiagram" =>
    LET nodeSection == IF graph.nodes = <<>> THEN << <<>> >>
                       ELSE NodeLinesOf(graph, call.tagged)
        edgeSection == IF graph.edges = <<>> THEN << <<>> >>
                       ELSE EdgeLinesOf(graph, call.tagged)
    IN /\ Lines(ret.diagram) =
            << <<"@startuml">> >> \o nodeSection \o edgeSection \o << <<"@enduml">> >>
       /\ (graph.nodes # <<>> /\ graph.edges # <<>>) =>
            Len(Lines(ret.diagram)) = Len(graph.nodes) + Len(graph.edges) + 2
       /\ (graph = ExampleGraph /\ call.tagged = {}) => ret.diagram = ExampleDiagram

\* the diagram of the example with features on node A and on its edge has
\* been made: five lines, two of them ending in features
C14_Witness ==
  /\ call.op = "graphPlantUmlDiagram"
  /\ graph = ExampleGraph
  /\ call.tagged = {"A"}
  /\ Lines(ret.diagram) =
       << <<"@startuml">>, <<"A", " ", "<<tagged>>">>, <<"B">>,
          <<"A", " --> ", "B", " ", "#red">>, <<"@enduml">> >>

\* C15: every record returned by cycles is a cycle of the graph: the to node
\* of its last cycleEdges entry has the identity of a node of its cycleNodes;
\* so also for the records of roots processed after a root that gave a record
C15_RecordsCloseOnOwnPath ==
  (call.op = "cycles" /\ Contract) =>
    \A k \in 1..Len(ret.cycles) :
      LET rec == ret.cycles[k]
      IN /\ Len(rec.cycleEdges) >= 1
         /\ \E j \in 1..Len(rec.cycleNodes) :
              identity(rec.cycleEdges[Len(rec.cycleEdges)].to) = identity(rec.cycleNodes[j])

\* C16: in isCyclical and in cycles recursionStack is exactly the set of the
\* identities of the nodes on the current DFS path; no DFS path is open when
\* the top-level loop starts a DFS from a new root, so recursionStack is
\* empty then, also when an earlier root's DFS ended by reporting a cycle
C16_RecursionStackEmptyAtRoots ==
  /\ call.op = "isCyclical" =>
       LET starts == isCyclicalRootStarts(graph, 1, {}, {})
       IN \A k \in 1..Len(starts) : starts[k].recursionStack = {}
  /\ call.op = "cycles" =>
       LET starts == cyclesRootStarts(graph, 1, {}, {})
       IN \A k \in 1..Len(starts) : starts[k].recursionStack = {}

\* the record is a DFS path: as many edges as nodes, at least one, every
\* edge leaving the node at its own index and, but for the last, entering
\* the node at the next index
WellFormedPath(rec) ==
  LET n == Len(rec.cycleNodes)
  IN /\ n >= 1
     /\ Len(rec.cycleEdges) = n
     /\ \A i \in 1..n : rec.cycleEdges[i].from = rec.cycleNodes[i]
     /\ \A i \in 1..(n - 1) : rec.cycleEdges[i].to = rec.cycleNodes[i + 1]

\* C17: every record returned by cycles (graph meeting the input contract)
\* is a well-formed DFS path: cycleEdges and cycleNodes have the same length
\* n >= 1, cycleEdges[i].from is cycleNodes[i], cycleEdges[i].to is
\* cycleNodes[i+1] for i < n-1; edges explored and abandoned on sibling
\* branches do not remain in the record
C17_RecordsAreDfsPaths ==
  (call.op = "cycles" /\ Contract) =>
    \A k \in 1..Len(ret.cycles) : WellFormedPath(ret.cycles[k])

\* cycles has returned a record of two nodes and two edges, and the first
\* edge of the graph, which leaves the root of the record and was explored
\* before, is not in the record
C17_Witness ==
  /\ call.op = "cycles"
  /\ Contract
  /\ Len(graph.edges) = 3
  /\ Len(ret.cycles) = 1
  /\ WellFormedPath(ret.cycles[1])
  /\ Len(ret.cycles[1].cycleNodes) = 2
  /\ graph.edges[1].from = ret.cycles[1].cycleNodes[1]
  /\ ~In(ret.cycles[1].cycleEdges, graph.edges[1])

C19_IsCyclicalIffCyclesNonEmpty ==
  (UniqueIdentities /\ ComparatorConsistent) =>
    /\ call.op = "isCyclical" => (ret.isCyclical <=> dagCyclesDFS(graph) # <<>>)
    /\ call.op = "cycles" => (ret.cycles # <<>> <=> dagIsCyclicalDFS(graph))

\* isCyclical has answered TRUE for a graph whose only cycle runs through a
\* node that is not in the node list, and cycles finds a record for it
C19_Witness ==
  /\ call.op = "isCyclical"
  /\ UniqueIdentities /\ ComparatorConsistent
  /\ ret.isCyclical = TRUE
  /\ ~EndpointsInNodes(graph)
  /\ Len(graph.edges) = 2
  /\ graph.edges[1].from # graph.edges[1].to
  /\ graph.edges[2] = [from |-> graph.edges[1].to, to |-> graph.edges[1].from]
  /\ Len(dagCyclesDFS(graph)) = 1

\* C20: for a graph whose edge endpoints are all in nodes, acyclic or cyclic,
\* with or without nodes sharing an identity, topologicalSort returns exactly
\* one node for each identity of graph.nodes and nothing else; with unique
\* identities the result is a permutation of graph.nodes
C20_SortHasOneNodePerIdentity ==
  (call.op = "topologicalSort" /\ EndpointsInNodes(graph)) =>
    LET sort == ret.topologicalSort
        ids == {identity(n) : n \in Range(graph.nodes)}
    IN /\ \A i \in 1..Len(sort) : In(graph.nodes, sort[i])
       /\ \A id \in ids :
            Cardinality({i \in 1..Len(sort) : identity(sort[i]) = id}) = 1
       /\ Len(sort) = Cardinality(ids)
       /\ UniqueIdentities =>
            /\ Len(sort) = Len(graph.nodes)
            /\ Range(sort) = Range(graph.nodes)

\* topologicalSort ran on three nodes, two of them sharing an identity, with
\* a self-loop on one of the two: the result has two nodes, the node listed
\* first of the two that share an identity and the third node
C20_Witness ==
  /\ call.op = "topologicalSort"
  /\ EndpointsInNodes(graph)
  /\ Len(graph.nodes) = 3
  /\ Len(graph.edges) = 1
  /\ graph.edges[1].from = graph.edges[1].to
  /\ \E a, b \in Range(graph.nodes) :
       /\ a # b /\ identity(a) = identity(b)
       /\ graph.edges[1].from = b
       /\ Pos(graph.nodes, a) < Pos(graph.nodes, b)
       /\ In(ret.topologicalSort, a)
       /\ ~In(ret.topologicalSort, b)
  /\ Len(ret.topologicalSort) = 2

\* a list of nodes; a list of cycle records
NodeList(s) == \A i \in 1..Len(s) : s[i] \in Node

RecordList(s) ==
  \A k \in 1..Len(s) :
    /\ NodeList(s[k].cycleNodes)
    /\ \A i \in 1..Len(s[k].cycleEdges) : s[k].cycleEdges[i] \in Edge(Node)

\* C21: every operation (isCyclical, cycles, topologicalSort, deps) ends and
\* returns a value, on whatever graph: cyclic graphs given to topologicalSort
\* and deps, self-loops, edges whose endpoints are not in nodes, nodes that
\* share an identity.  No search nests without end (none is cut), and what
\* the operation returned is what the observed search arrives at: a boolean,
\* a list of records, a list of nodes, a pair of lists of nodes
C21_OperationsReturn ==
  /\ call.op = "isCyclical" =>
       LET t == dagIsCyclicalTraced(graph)
       IN ~t.cut /\ ret.isCyclical \in BOOLEAN /\ ret.isCyclical = t.found
  /\ call.op = "cycles" =>
       LET t == dagCyclesTraced(graph)
       IN ~t.cut /\ RecordList(ret.cycles) /\ ret.cycles = t.cycleList
  /\ call.op = "topologicalSort" =>
       LET t == dagTopologicalSortTraced(graph)
       IN ~t.cut /\ NodeList(ret.topologicalSort) /\ ret.topologicalSort = t.sort
  /\ call.op = "deps" =>
       LET t == dagTopologicalSortTraced(graph)
       IN /\ ~t.cut
          /\ NodeList(ret.deps.dependencies)
          /\ NodeList(ret.deps.dependents)
          /\ DOMAIN ret.deps = {"dependencies", "dependents"}

\* deps has returned for a graph of three nodes, two of them sharing an
\* identity, whose only edge is a self-loop on one of them, and
\* topologicalSort on the same graph ends with two nodes
C21_Witness ==
  /\ call.op = "deps"
  /\ In(graph.nodes, call.node)
  /\ Len(graph.nodes) = 3
  /\ ~UniqueIdentities
  /\ Len(graph.edges) = 1
  /\ graph.edges[1].from = graph.edges[1].to
  /\ ~dagTopologicalSortTraced(graph).cut
  /\ Len(dagTopologicalSortTraced(graph).sort) = 2
  /\ Len(ret.deps.dependencies) + Len(ret.deps.dependents) >= 1

\* the identities in the graph: of its nodes and of the endpoints of its edges
IdentitiesOf(g) ==
  {identity(n) : n \in Range(g.nodes)}
    \cup {identity(g.edges[i].from) : i \in 1..Len(g.edges)}
    \cup {identity(g.edges[i].to) : i \in 1..Len(g.edges)}

\* the calls of dagDFS that are open when the k-th call of the log is made,
\* that call included: each one the last call before it at its depth
OpenCalls(entries, k) ==
  {j \in 1..k : \A m \in (j + 1)..k : entries[m].depth > entries[j].depth}

\* no call of the log is deeper than there are identities in the graph, every
\* nested call enters an identity that was unvisited, and the calls open at
\* any moment are for nodes of pairwise different identity
DepthBounded(g, entries) ==
  \A k \in 1..Len(entries) :
    /\ entries[k].depth <= Cardinality(IdentitiesOf(g))
    /\ entries[k].depth > 1 => entries[k].fresh
    /\ \A i, j \in OpenCalls(entries, k) :
         identity(entries[i].node) = identity(entries[j].node) => i = j

\* C22: in isCyclical, cycles and topologicalSort the nested calls of dagDFS
\* never go deeper than the number of distinct identities in the graph (nodes
\* and edge endpoints): a node is entered by a nested call only when its
\* identity is not in visited, so no identity is twice on one recursion path
C22_DepthWithinIdentities ==
  /\ call.op = "isCyclical" => DepthBounded(graph, dagIsCyclicalTraced(graph).entries)
  /\ call.op = "cycles" => DepthBounded(graph, dagCyclesTraced(graph).entries)
  /\ call.op = "topologicalSort" =>
       DepthBounded(graph, dagTopologicalSortTraced(graph).entries)

\* cycles ran on a graph with a single node in its node list and a chain of
\* two edges leading from it: the search went three calls deep, as deep as
\* there are identities
C22_Witness ==
  /\ call.op = "cycles"
  /\ Len(graph.nodes) = 1
  /\ Cardinality(IdentitiesOf(graph)) = 3
  /\ LET entries == dagCyclesTraced(graph).entries
     IN /\ Len(entries) = 3
        /\ entries[3].depth = 3
        /\ DepthBounded(graph, entries)

\* the nodes the top-level loop called dagDFS for, in the order of the calls
RootsOf(entries) ==
  LET RECURSIVE Roots(_)
      Roots(k) ==
        IF k > Len(entries) THEN <<>>
        ELSE IF entries[k].depth = 1
             THEN <<entries[k].node>> \o Roots(k + 1)
             ELSE Roots(k + 1)
  IN Roots(1)

\* how often the log enters the identity id
EntriesOf(entries, id) ==
  Cardinality({k \in 1..Len(entries) : identity(entries[k].node) = id})

\* C23: isCyclical starts a depth-first search only from nodes not yet
\* visited: the top-level loop never calls dagDFS for a node whose identity is
\* in visited, so every identity is entered at most once in a call
C23_IsCyclicalRootsUnvisited ==
  call.op = "isCyclical" =>
    LET entries == dagIsCyclicalTraced(graph).entries
    IN /\ \A k \in 1..Len(entries) : entries[k].fresh
       /\ \A id \in IdentitiesOf(graph) : EntriesOf(entries, id) <= 1

\* C23, as the code has it: the top-level loop of isCyclical calls dagDFS for
\* every node of graph.nodes in list order, visited or not, until a call
\* reports a cycle (all of them when the answer is FALSE); only the nested
\* calls enter unvisited identities alone, so an identity is entered at most
\* once by a nested call and once more for each node of graph.nodes that has it
C23_IsCyclicalRootsAllNodes ==
  call.op = "isCyclical" =>
    LET entries == dagIsCyclicalTraced(graph).entries
        roots == RootsOf(entries)
    IN /\ Len(roots) <= Len(graph.nodes)
       /\ roots = SubSeq(graph.nodes, 1, Len(roots))
       /\ ~ret.isCyclical => roots = graph.nodes
       /\ \A k \in 1..Len(entries) : entries[k].depth > 1 => entries[k].fresh
       /\ \A id \in IdentitiesOf(graph) :
            /\ Cardinality({k \in 1..Len(entries) :
                 entries[k].depth > 1 /\ identity(entries[k].node) = id}) <= 1
            /\ EntriesOf(entries, id) <=
                 1 + Cardinality({i \in 1..Len(graph.nodes) : identity(graph.nodes[i]) = id})

\* isCyclical has answered FALSE for nodes [x, y] and the edge x -> y: y was
\* entered by the nested call from x and once more by the top-level loop,
\* when its identity was in visited
C23_Witness ==
  /\ call.op = "isCyclical"
  /\ ret.isCyclical = FALSE
  /\ Len(graph.nodes) = 2
  /\ graph.edges = <<[from |-> graph.nodes[1], to |-> graph.nodes[2]]>>
  /\ LET entries == dagIsCyclicalTraced(graph).entries
     IN /\ Len(entries) = 3
        /\ entries[2] = [node |-> graph.nodes[2], depth |-> 2, fresh |-> TRUE]
        /\ entries[3] = [node |-> graph.nodes[2], depth |-> 1, fresh |-> FALSE]

====
